---- MODULE Spec2Model ----
(***************************************************************************)
(* A model of the Mapbox vector tile encoder of TileStache                 *)
(* (TileStache/Goodies/VecTiles/mapbox.py): the ring stream builder        *)
(* (_parseGeometry), the delta / simplify encoder (_geo_encode,            *)
(* _handle_skipped_last), the property table (_handle_attr) and the layer  *)
(* and tile assembly (addFeature, addFeatures, encode, merge).             *)
(*                                                                         *)
(* Source coordinates are floats in the program.  The model writes a       *)
(* coordinate as an integer number of HALF units (3 stands for 1.5), so    *)
(* that int() is a real truncation and not the identity.                   *)
(***************************************************************************)
EXTENDS Integers, Sequences, FiniteSets, TLC

VARIABLES
    shape,          \* the geometry handed to _geo_encode
    tolerance,      \* the module global `tolerance`
    g,              \* the locals of _geo_encode and f.geometry
    layers,         \* self.tile.layers; self.layer is the last one
    keys,           \* self.keys, the shadow list of layer.keys
    values,         \* self.values, the shadow list of layer.values
    feature_count,  \* self.feature_count
    status,         \* where encode() / merge() stands, or the exception raised
    fed,            \* per layer, the features handed to addFeature so far
    zz              \* one zigzag encode / decode of a delta

vars == <<shape, tolerance, g, layers, keys, values, feature_count, status, fed, zz>>

geoVars  == <<shape, tolerance, g>>
tileVars == <<layers, keys, values, feature_count, status, fed>>

-----------------------------------------------------------------------------
(* Program constants, mapbox.py lines 13-23.                               *)

extents == 4096

cmd_bits == 3

default_tolerance == 0

CMD_MOVE_TO == 1

CMD_LINE_TO == 2

CMD_SEG_END == 7

-----------------------------------------------------------------------------
(* Bounds of the model.                                                    *)

\* tolerances range over 0..MaxTol
MaxTol == 2

\* a LineString has 2..MaxLineLen vertices
MaxLineLen == 3

\* a closed ring has 4..MaxRingLen vertices, the closing one included
MaxRingLen == 5

-----------------------------------------------------------------------------
(* Python integer arithmetic.                                              *)

Abs(n) == IF n < 0 THEN -n ELSE n

\* 2^k
RECURSIVE Pow2(_)
Pow2(k) == IF k = 0 THEN 1 ELSE 2 * Pow2(k - 1)

\* a ^ b on Python integers (two's complement of unbounded width)
RECURSIVE Xor(_, _)
Xor(a, b) ==
    IF a = 0 THEN b
    ELSE IF b = 0 THEN a
    ELSE IF a = -1 THEN -1 - b
    ELSE IF b = -1 THEN -1 - a
    ELSE 2 * Xor(a \div 2, b \div 2) + (((a % 2) + (b % 2)) % 2)

\* a & 1
And1(a) == a % 2

\* a >> k, an arithmetic shift: the floor of a / 2^k
RECURSIVE ShiftRight(_, _)
ShiftRight(a, k) == IF k = 0 THEN a ELSE ShiftRight(a \div 2, k - 1)

\* a << k
ShiftLeft(a, k) == a * Pow2(k)

\* a | b for b < 2^k and a a multiple of 2^k, as in _encode_cmd_length
OrLow(a, b) == a + b

\* int(v) of a float given in half units: truncation toward zero
PyInt(h) == IF h >= 0 THEN h \div 2 ELSE -((-h) \div 2)

\* a zigzag encoding that forgets the sign word
ZigZagNoSign(n) == ShiftLeft(n, 1)

\* the manual zigzag encoding of _geo_encode and _handle_skipped_last
ZigZag(n) == Xor(ShiftLeft(n, 1), ShiftRight(n, 31))

\* the decoding of _handle_skipped_last
UnZigZag(e) == Xor(ShiftRight(e, 1), -And1(e))

\* a command word with its two parts exchanged
encode_cmd_length_swapped(cmd, length) ==
    OrLow(ShiftLeft(cmd, cmd_bits), length % Pow2(cmd_bits))

encode_cmd_length(cmd, length) ==
    OrLow(ShiftLeft(length, cmd_bits), cmd % Pow2(cmd_bits))

-----------------------------------------------------------------------------
(* _parseGeometry.  A shape is [type, polys]: polys is a sequence of       *)
(* members, each a sequence of arcs (rings or lines), each a sequence of   *)
(* points [x, y] in half units.  A Point is one member with one arc of one *)
(* point, a LineString one member with one arc, a Polygon one member whose *)
(* arcs are the exterior and then the interiors.                           *)

RECURSIVE Flatten(_)
Flatten(ss) == IF ss = <<>> THEN <<>> ELSE Head(ss) \o Flatten(Tail(ss))

\* an entry whose y is not flipped
get_point_obj_noflip(x, y, cmd) == [x |-> x, y |-> y, cmd |-> cmd]

\* y is flipped against the extent when the entry is built
get_point_obj(x, y, cmd) == [x |-> x, y |-> 2 * extents - y, cmd |-> cmd]

\* an arc builder that tags the last vertex of a ring LineTo
get_arc_obj_line_last(arc, type, polygon) ==
    [i \in 1..Len(arc) |->
        get_point_obj(arc[i].x, arc[i].y,
            IF i = 1 THEN CMD_MOVE_TO ELSE CMD_LINE_TO)]

\* an arc builder that closes lines as it closes rings
get_arc_obj_close_lines(arc, type, polygon) ==
    [i \in 1..Len(arc) |->
        get_point_obj(arc[i].x, arc[i].y,
            IF i = 1 THEN CMD_MOVE_TO
            ELSE IF i = Len(arc) THEN CMD_SEG_END
            ELSE CMD_LINE_TO)]

\* `polygon` is the enclosing function's variable as it stands at the call
get_arc_obj(arc, type, polygon) ==
    [i \in 1..Len(arc) |->
        get_point_obj(arc[i].x, arc[i].y,
            IF i = 1 THEN CMD_MOVE_TO
            ELSE IF i = Len(arc) /\ type = polygon THEN CMD_SEG_END
            ELSE CMD_LINE_TO)]

GeometryTypes ==
    {"GeometryCollection", "Point", "LineString", "Polygon",
     "MultiPoint", "MultiLineString", "MultiPolygon"}

\* the else branch: NotImplementedError
parseGeometryRaises(s) == s.type \notin GeometryTypes

parseGeometry(s) ==
    CASE s.type = "GeometryCollection" -> <<>>
      [] s.type = "Point" ->
            << get_point_obj(s.polys[1][1][1].x, s.polys[1][1][1].y, CMD_MOVE_TO) >>
      [] s.type = "LineString" ->
            get_arc_obj(s.polys[1][1], "line", "polygon")
      [] s.type = "Polygon" ->
            Flatten([r \in 1..Len(s.polys[1]) |->
                        get_arc_obj(s.polys[1][r], "polygon", "polygon")])
      [] s.type = "MultiPoint" ->
            [i \in 1..Len(s.polys) |->
                get_point_obj(s.polys[i][1][1].x, s.polys[i][1][1].y, CMD_MOVE_TO)]
      [] s.type = "MultiLineString" ->
            Flatten([i \in 1..Len(s.polys) |->
                        get_arc_obj(s.polys[i][1], "line", "polygon")])
      [] s.type = "MultiPolygon" ->
            \* the loop variable rebinds `polygon` to the member polygon, which
            \* is also what is passed as `type`
            Flatten([i \in 1..Len(s.polys) |->
                Flatten([r \in 1..Len(s.polys[i]) |->
                            get_arc_obj(s.polys[i][r], s.polys[i], s.polys[i])])])
      [] OTHER -> <<>>

-----------------------------------------------------------------------------
(* _handle_skipped_last: rewrites the pair before skipped_index in place.  *)
(* Its assignments to x_ and y_ are to its own parameters.                 *)

handle_skipped_last(geometry, skipped_index, cur_x, cur_y, x_, y_) ==
    LET last_x  == geometry[skipped_index - 2 + 1]
        last_y  == geometry[skipped_index - 1 + 1]
        last_dx == UnZigZag(last_x)
        last_dy == UnZigZag(last_y)
        dx      == cur_x - x_ + last_dx
        dy      == cur_y - y_ + last_dy
    IN [geometry EXCEPT ![skipped_index - 2 + 1] = ZigZag(dx),
                        ![skipped_index - 1 + 1] = ZigZag(dy)]

-----------------------------------------------------------------------------
(* _geo_encode.                                                            *)

\* the locals after line 254
GeoStart(s) ==
    [x_ |-> 0, y_ |-> 0, cmd |-> -1, cmd_idx |-> -1, vtx_cmd |-> -1,
     prev_cmd |-> -1, skipped_index |-> -1, skipped_last |-> FALSE,
     cur_x |-> 0, cur_y |-> 0, it |-> 0, length |-> 0,
     coordinates |-> parseGeometry(s), geometry |-> <<>>,
     pc |-> IF parseGeometryRaises(s) THEN "NotImplementedError" ELSE "loop"]

\* lines 262-269: a change of command flushes the run and opens a new one
GeoNewRun(st, vtx_cmd) ==
    IF vtx_cmd # st.cmd
    THEN LET flushed ==
                IF st.cmd_idx >= 0
                THEN [st.geometry EXCEPT ![st.cmd_idx + 1] =
                            encode_cmd_length(st.cmd, st.length)]
                ELSE st.geometry
         IN [st EXCEPT !.cmd = vtx_cmd, !.length = 0,
                       !.cmd_idx = Len(flushed),
                       !.geometry = Append(flushed, 0)]
    ELSE st

\* a vertex rule without the look at the following entry
GeoVertexNoLookahead(st, x, y, tol) ==
    LET patched ==
            IF st.cmd = CMD_MOVE_TO /\ st.skipped_last /\ st.skipped_index > 1
            THEN handle_skipped_last(st.geometry, st.skipped_index,
                                     st.cur_x, st.cur_y, st.x_, st.y_)
            ELSE st.geometry
        dx == PyInt(x) - st.x_
        dy == PyInt(y) - st.y_
    IN IF st.length = 0 \/ Abs(dx) >= tol \/ Abs(dy) >= tol
       THEN [st EXCEPT !.geometry = patched \o <<ZigZag(dx), ZigZag(dy)>>,
                       !.cur_x = PyInt(x), !.cur_y = PyInt(y),
                       !.x_ = PyInt(x), !.y_ = PyInt(y),
                       !.skipped_last = FALSE,
                       !.length = st.length + 1]
       ELSE [st EXCEPT !.geometry = patched,
                       !.cur_x = PyInt(x), !.cur_y = PyInt(y),
                       !.skipped_last = TRUE,
                       !.skipped_index = Len(patched)]

\* lines 271-307: a MoveTo or LineTo vertex
GeoVertex(st, x, y, tol) ==
    LET patched ==
            IF st.cmd = CMD_MOVE_TO /\ st.skipped_last /\ st.skipped_index > 1
            THEN handle_skipped_last(st.geometry, st.skipped_index,
                                     st.cur_x, st.cur_y, st.x_, st.y_)
            ELSE st.geometry
        cur_x == PyInt(x)
        cur_y == PyInt(y)
        dx == cur_x - st.x_
        dy == cur_y - st.y_
        n  == Len(st.coordinates)
        sharp_turn_ahead ==
            /\ st.it + 2 <= n
            /\ st.coordinates[st.it + 2].cmd = CMD_LINE_TO
            /\ LET next_dx == Abs(cur_x - PyInt(st.coordinates[st.it + 2].x))
                   next_dy == Abs(cur_y - PyInt(st.coordinates[st.it + 2].y))
               IN \/ (next_dx = 0 /\ next_dy >= tol)
                  \/ (next_dy = 0 /\ next_dx >= tol)
    IN IF st.length = 0 \/ sharp_turn_ahead \/ Abs(dx) >= tol \/ Abs(dy) >= tol
       THEN [st EXCEPT !.geometry = patched \o <<ZigZag(dx), ZigZag(dy)>>,
                       !.cur_x = cur_x, !.cur_y = cur_y,
                       !.x_ = cur_x, !.y_ = cur_y,
                       !.skipped_last = FALSE,
                       !.length = st.length + 1]
       ELSE [st EXCEPT !.geometry = patched,
                       !.cur_x = cur_x, !.cur_y = cur_y,
                       !.skipped_last = TRUE,
                       !.skipped_index = Len(patched)]

\* lines 308-310: a ClosePath entry
GeoSegEnd(st) ==
    IF st.prev_cmd # CMD_SEG_END
    THEN [st EXCEPT !.length = st.length + 1]
    ELSE st

\* one pass of the while loop, lines 260-315, for it < len(coordinates)
GeoIter(st, tol) ==
    LET c  == st.coordinates[st.it + 1]
        s1 == [GeoNewRun(st, c.cmd) EXCEPT !.vtx_cmd = c.cmd]
        s2 == IF c.cmd = CMD_MOVE_TO \/ c.cmd = CMD_LINE_TO
              THEN GeoVertex(s1, c.x, c.y, tol)
              ELSE IF c.cmd = CMD_SEG_END
              THEN GeoSegEnd(s1)
              ELSE [s1 EXCEPT !.pc = "Exception"]
    IN IF s2.pc = "Exception" THEN s2
       ELSE [s2 EXCEPT !.it = st.it + 1, !.prev_cmd = s2.cmd]

\* an end of the stream that leaves the last command word as it is
GeoFinishNoFlush(st) ==
    [st EXCEPT !.pc = "done",
               !.geometry =
                    IF st.skipped_last /\ st.skipped_index > 1
                    THEN handle_skipped_last(st.geometry, st.skipped_index,
                                             st.cur_x, st.cur_y, st.x_, st.y_)
                    ELSE st.geometry]

\* lines 317-324, after the loop
GeoFinish(st) ==
    LET patched ==
            IF st.skipped_last /\ st.skipped_index > 1
            THEN handle_skipped_last(st.geometry, st.skipped_index,
                                     st.cur_x, st.cur_y, st.x_, st.y_)
            ELSE st.geometry
        final ==
            IF st.cmd_idx >= 0
            THEN [patched EXCEPT ![st.cmd_idx + 1] =
                        encode_cmd_length(st.cmd, st.length)]
            ELSE patched
    IN [st EXCEPT !.geometry = final, !.pc = "done"]

\* the whole of _geo_encode from a state of the loop
RECURSIVE GeoRun(_, _)
GeoRun(st, tol) ==
    IF st.pc # "loop" THEN st
    ELSE IF st.it >= Len(st.coordinates) THEN GeoFinish(st)
    ELSE GeoRun(GeoIter(st, tol), tol)

geo_encode(s, tol) == GeoRun(GeoStart(s), tol)

-----------------------------------------------------------------------------
(* Property values.  A Python value is [t, n, s]: its type, its number (a  *)
(* bool is 0 or 1) and its text.                                           *)

TrueVal  == [t |-> "bool", n |-> 1, s |-> ""]
FalseVal == [t |-> "bool", n |-> 0, s |-> ""]
IntVal(i) == [t |-> "int", n |-> i, s |-> ""]
FloatVal(i) == [t |-> "float", n |-> i, s |-> ""]
StrVal(str) == [t |-> "str", n |-> 0, s |-> str]
UnicodeVal(str) == [t |-> "unicode", n |-> 0, s |-> str]
NoneVal == [t |-> "NoneType", n |-> 0, s |-> ""]
\* an empty list, a value of a type _handle_attr has no branch for
ListVal == [t |-> "list", n |-> 0, s |-> ""]

IsNumber(v) == v.t \in {"bool", "int", "float"}
IsText(v) == v.t \in {"str", "unicode"}

\* a == b of two Python values, as `in` and list.index compare them: a bool
\* is an int, and numbers compare by value whatever their type
PyEq(a, b) ==
    IF IsNumber(a) /\ IsNumber(b) THEN a.n = b.n
    ELSE IF IsText(a) /\ IsText(b) THEN a.s = b.s
    ELSE a = b

\* a membership test that finds nothing
PyInNever(v, l) == FALSE

\* v in l
PyIn(v, l) == \E i \in 1..Len(l) : PyEq(l[i], v)

\* l.index(v), for v in l: the 0-based place of the first equal element
ListIndex(l, v) == (CHOOSE i \in 1..Len(l) :
                        /\ PyEq(l[i], v)
                        /\ \A j \in 1..(i - 1) : ~PyEq(l[j], v)) - 1

\* a Value message of the wire format: the field set, and what it holds;
\* `swapped` says the bytes of a double were reversed before it was stored
WireValue(field, v, swapped) ==
    [field |-> field, n |-> v.n, s |-> v.s, swapped |-> swapped]

\* layer.values.add() before any field is set
EmptyWireValue == [field |-> "", n |-> 0, s |-> "", swapped |-> FALSE]

-----------------------------------------------------------------------------
(* _handle_attr.  `a` is [lkeys, lvalues, keys, values, tags, err]: the    *)
(* layer's wire tables, the shadow lists, the feature's tags and the       *)
(* exception raised, if any.  props.items() is a sequence of [k, v].       *)

\* lines 136-139
AttrKey(a, k) ==
    LET a1 == IF ~(\E i \in 1..Len(a.keys) : a.keys[i] = k)
              THEN [a EXCEPT !.lkeys = Append(a.lkeys, k),
                             !.keys  = Append(a.keys, k)]
              ELSE a
        idx == (CHOOSE i \in 1..Len(a1.keys) : a1.keys[i] = k) - 1
    IN [a1 EXCEPT !.tags = Append(a1.tags, idx)]

\* lines 142-156: the wire value of a value seen for the first time
AttrWire(a, v) ==
    IF v.t = "bool"
    THEN [a EXCEPT !.lvalues = Append(a.lvalues, WireValue("bool_value", v, FALSE))]
    ELSE IF v.t = "str"
    THEN [a EXCEPT !.lvalues = Append(a.lvalues, WireValue("string_value", v, FALSE))]
    ELSE IF v.t = "unicode"
    \* unicode(v, 'utf8') of a unicode object: decoding Unicode is not supported
    THEN [a EXCEPT !.lvalues = Append(a.lvalues, EmptyWireValue),
                   !.err = "TypeError"]
    ELSE IF v.t = "int"
    THEN [a EXCEPT !.lvalues = Append(a.lvalues, WireValue("int_value", v, FALSE))]
    ELSE IF v.t = "float"
    THEN [a EXCEPT !.lvalues = Append(a.lvalues, WireValue("double_value", v, TRUE))]
    ELSE a

\* lines 140-161
AttrValue(a, v) ==
    LET a1 == IF ~PyIn(v, a.values)
              THEN AttrWire([a EXCEPT !.values = Append(a.values, v)], v)
              ELSE a
    IN IF a1.err # "" THEN a1
       ELSE [a1 EXCEPT !.tags = Append(a1.tags, ListIndex(a1.values, v))]

RECURSIVE handle_attr(_, _)
handle_attr(a, items) ==
    IF items = <<>> \/ a.err # "" THEN a
    ELSE LET k == Head(items).k
             v == Head(items).v
         IN IF v # NoneVal
            THEN handle_attr(AttrValue(AttrKey(a, k), v), Tail(items))
            ELSE handle_attr(a, Tail(items))

-----------------------------------------------------------------------------
(* addFeatures and addFeature.  A feature is [geom, props, len, id]: the   *)
(* geometry its WKB decodes to, the items of its property dict, the length *)
(* of the tuple (2 or 3) and, for a 3-tuple, its identifier.               *)

\* self.tile.Point, LineString, Polygon; None for any other geometry
get_feature_type(s) ==
    IF s.type = "Point" \/ s.type = "MultiPoint" THEN "Point"
    ELSE IF s.type = "LineString" \/ s.type = "MultiLineString" THEN "LineString"
    ELSE IF s.type = "Polygon" \/ s.type = "MultiPolygon" THEN "Polygon"
    ELSE "None"

\* lines 91-94: self.tile.layers.add()
NewLayer(name) ==
    [name |-> name, version |-> 2, extent |-> extents,
     keys |-> <<>>, values |-> <<>>, features |-> <<>>]

\* line 103-105: self.layer.features.add(), with its id
NewFeature(id) == [id |-> id, tags |-> <<>>, type |-> "unset", geometry |-> <<>>]

\* an update that leaves the dict as it was
UpdateUidDropped(items, id, at) == items

\* feature[1].update(uid=feature[2]): the items of the dict afterwards, the
\* new key at the place `at` of the dict's order
UpdateUid(items, id, at) ==
    SubSeq(items, 1, at - 1) \o << [k |-> "uid", v |-> id] >>
        \o SubSeq(items, at, Len(items))

\* len(feature) >= 2, the guard of line 108
GuardsUid(feature) == feature.len >= 2

\* addFeature, lines 102-117, on the last layer `l`: the layer, the shadow
\* lists and the counter afterwards, the exception raised and the items
\* _handle_attr went through
addFeature(l, ks, vs, count, feature, at, tol) ==
    LET f0 == NewFeature(count + 1)
        result(layer, a, e, items) ==
            [layer |-> layer, keys |-> a.keys, values |-> a.values,
             count |-> count + 1, err |-> e, items |-> items]
        a0 == [lkeys |-> l.keys, lvalues |-> l.values, keys |-> ks,
               values |-> vs, tags |-> <<>>, err |-> ""]
        l0 == [l EXCEPT !.features = Append(l.features, f0)]
    IN IF GuardsUid(feature) /\ feature.len < 3
       THEN result(l0, a0, "IndexError", <<>>)
       ELSE
        LET items == IF GuardsUid(feature)
                     THEN UpdateUid(feature.props, feature.id, at)
                     ELSE feature.props
            a  == handle_attr(a0, items)
            f1 == [f0 EXCEPT !.tags = a.tags]
            l1 == [l EXCEPT !.keys = a.lkeys, !.values = a.lvalues,
                            !.features = Append(l.features, f1)]
            ty == get_feature_type(feature.geom)
        IN IF a.err # "" THEN result(l1, a, a.err, items)
           \* f.type = None: the message refuses a value that is no enum number
           ELSE IF ty = "None" THEN result(l1, a, "TypeError", items)
           ELSE LET enc == geo_encode(feature.geom, tol)
                    f2  == [f1 EXCEPT !.type = ty, !.geometry = enc.geometry]
                    l2  == [l1 EXCEPT !.features = Append(l.features, f2)]
                IN result(l2, a, IF enc.pc = "done" THEN "" ELSE enc.pc, items)

-----------------------------------------------------------------------------
(* The geometries handed to the encoder.                                   *)

\* sequences over S with lo..hi elements
SeqsOf(S, lo, hi) == UNION {[1..n -> S] : n \in lo..hi}

\* points in half units: -1.5, 0, 5, 10 by 0, 1.5, 20, 4096, 4097.5
PtsAll == {[x |-> px, y |-> py] : px \in {-3, 0, 10, 20}, py \in {0, 3, 40, 8192, 8195}}

\* (0, 0), (1, 0.5), (5, 0)
SmallPts == {[x |-> 0, y |-> 0], [x |-> 2, y |-> 1], [x |-> 10, y |-> 0]}

Lines == SeqsOf(SmallPts, 2, MaxLineLen) \cup [1..2 -> PtsAll]

ShortLines == [1..2 -> SmallPts]

\* shapely closes a ring: its last vertex is its first
Rings == {Append(r, r[1]) : r \in SeqsOf(SmallPts, 3, MaxRingLen - 1)}

ShortRings == {Append(r, r[1]) : r \in [1..3 -> SmallPts]}

PointShape(p) == [type |-> "Point", polys |-> << << <<p>> >> >>]

LineShape(l) == [type |-> "LineString", polys |-> << <<l>> >>]

\* the LineString (0, 0) -> (5, 0)
LineFrom00To50 == LineShape(<< [x |-> 0, y |-> 0], [x |-> 10, y |-> 0] >>)

GeometryCollection == [type |-> "GeometryCollection", polys |-> <<>>]

Shapes ==
    {PointShape(p) : p \in PtsAll}
    \cup {[type |-> "MultiPoint", polys |-> [i \in 1..Len(ps) |-> << <<ps[i]>> >>]] :
            ps \in SeqsOf(SmallPts, 2, 3)}
    \cup {LineShape(l) : l \in Lines}
    \cup {[type |-> "MultiLineString", polys |-> << <<l1>>, <<l2>> >>] :
            l1 \in ShortLines, l2 \in SeqsOf(SmallPts, 2, MaxLineLen)}
    \cup {[type |-> "Polygon", polys |-> << <<ext>> \o ints >>] :
            ext \in Rings, ints \in {<<>>} \cup {<<r>> : r \in ShortRings}}
    \cup {[type |-> "MultiLineString", polys |-> << <<l1>>, <<l2>> >>] :
            l1 \in SeqsOf(SmallPts, 3, MaxLineLen), l2 \in ShortLines}
    \cup {[type |-> "MultiPolygon", polys |-> << <<r1>>, <<r2>> >>] :
            r1 \in ShortRings, r2 \in ShortRings}
    \cup {[type |-> "MultiPolygon", polys |-> << <<r1, r2>>, <<r2>> >>] :
            r1 \in ShortRings, r2 \in ShortRings}
    \cup {GeometryCollection}

-----------------------------------------------------------------------------
(* The state of the parts of the program a specification leaves alone.     *)

IdleGeo ==
    /\ shape = GeometryCollection
    /\ tolerance = default_tolerance
    /\ g = [GeoStart(GeometryCollection) EXCEPT !.pc = "idle"]

IdleTile ==
    /\ layers = <<>>
    /\ keys = <<>>
    /\ values = <<>>
    /\ feature_count = 0
    /\ status = "idle"
    /\ fed = <<>>

IdleZig == zz = [n |-> 0, e |-> 0, d |-> 0, pc |-> "idle"]

-----------------------------------------------------------------------------
(* SpecGeo: _geo_encode on one geometry, one pass of its loop at a time,   *)
(* for every tolerance the module global may be set to.                    *)

InitGeo ==
    /\ shape \in Shapes
    /\ tolerance \in 0..MaxTol
    /\ g = GeoStart(shape)
    /\ IdleTile
    /\ IdleZig

GeoLoop ==
    /\ g.pc = "loop"
    /\ g.it < Len(g.coordinates)
    /\ g' = GeoIter(g, tolerance)
    /\ UNCHANGED <<shape, tolerance, tileVars, zz>>

GeoEnd ==
    /\ g.pc = "loop"
    /\ g.it >= Len(g.coordinates)
    /\ g' = GeoFinish(g)
    /\ UNCHANGED <<shape, tolerance, tileVars, zz>>

NextGeo == GeoLoop \/ GeoEnd

SpecGeo == InitGeo /\ [][NextGeo]_vars

-----------------------------------------------------------------------------
(* Spec: encode() and merge().  A call builds a VectorTile, runs           *)
(* addFeatures once (encode) or once per layer (merge), addFeature once    *)
(* per feature, and serializes the tile.  An exception ends the call.      *)

\* a tile holds at most MaxLayers layers and MaxFeatures features
MaxLayers == 2

MaxFeatures == 2

LayerNames == {"roads"}

PointAt1020 == PointShape([x |-> 20, y |-> 40])

Kind(v) == << [k |-> "kind", v |-> v] >>

TileProps ==
    {<<>>, Kind(StrVal("road")), Kind(IntVal(1)), Kind(TrueVal), Kind(ListVal)}

\* 2-tuples (geometry, properties) and 3-tuples with an identifier
Features ==
    {[geom |-> PointAt1020, props |-> ps, len |-> 2, id |-> NoneVal] : ps \in TileProps}
    \cup {[geom |-> PointAt1020, props |-> ps, len |-> 3, id |-> i] :
            ps \in TileProps, i \in {NoneVal, IntVal(7)}}
    \cup {[geom |-> sh, props |-> Kind(StrVal("road")), len |-> 3, id |-> NoneVal] :
            sh \in {LineFrom00To50, GeometryCollection}}
    \cup {[geom |-> GeometryCollection, props |-> <<>>, len |-> 2, id |-> NoneVal]}

Building == status \in {"encode", "merge"}

Raised == status \in {"IndexError", "TypeError", "Exception", "NotImplementedError"}

RECURSIVE SumLen(_)
SumLen(ls) == IF ls = <<>> THEN 0 ELSE Len(Head(ls).features) + SumLen(Tail(ls))

\* tile = VectorTile(extents), lines 63 and 75
NewTile ==
    /\ layers = <<>>
    /\ keys = <<>>
    /\ values = <<>>
    /\ feature_count = 0
    /\ fed = <<>>

Init ==
    /\ status \in {"encode", "merge"}
    /\ NewTile
    /\ IdleGeo
    /\ IdleZig

\* addFeatures up to its loop, lines 91-97
AddFeatures ==
    /\ Building
    /\ status = "encode" => Len(layers) = 0
    /\ Len(layers) < MaxLayers
    /\ \E name \in LayerNames :
        layers' = Append(layers, NewLayer(name))
    /\ feature_count' = 0
    /\ keys' = <<>>
    /\ values' = <<>>
    /\ fed' = Append(fed, <<>>)
    /\ UNCHANGED <<status, geoVars, zz>>

\* one pass of the loop of addFeatures: addFeature on the next feature
AddFeature ==
    /\ Building
    /\ Len(layers) >= 1
    /\ SumLen(layers) < MaxFeatures
    /\ \E feature \in Features : \E at \in 1..(Len(feature.props) + 1) :
        LET n == Len(layers)
            r == addFeature(layers[n], keys, values, feature_count, feature, at,
                            tolerance)
        IN /\ layers' = [layers EXCEPT ![n] = r.layer]
           /\ keys' = r.keys
           /\ values' = r.values
           /\ feature_count' = r.count
           /\ status' = IF r.err = "" THEN status ELSE r.err
           /\ fed' = [fed EXCEPT ![n] = Append(@,
                        [geom |-> feature.geom.type, len |-> feature.len,
                         id |-> feature.id, items |-> r.items])]
    /\ UNCHANGED <<geoVars, zz>>

\* tile.tile.SerializeToString() and file.write(data)
Serialize ==
    /\ Building
    /\ status = "encode" => Len(layers) = 1
    /\ status' = "written"
    /\ UNCHANGED <<layers, keys, values, feature_count, fed, geoVars, zz>>

\* the next call of encode() or merge() builds a VectorTile of its own
NewCall ==
    /\ status = "written"
    /\ status' \in {"encode", "merge"}
    /\ layers' = <<>>
    /\ keys' = <<>>
    /\ values' = <<>>
    /\ feature_count' = 0
    /\ fed' = <<>>
    /\ UNCHANGED <<geoVars, zz>>

Next == AddFeatures \/ AddFeature \/ Serialize \/ NewCall

Spec == Init /\ [][Next]_vars

-----------------------------------------------------------------------------
(* SpecAttr: _handle_attr on the features of one layer build, each call    *)
(* with the items of one property dict.                                    *)

\* _handle_attr is called at most MaxCalls times
MaxCalls == 3

AttrKeys == {"kind", "name"}

AttrValues ==
    {TrueVal, FalseVal, IntVal(1), IntVal(0), FloatVal(1), StrVal("road"),
     UnicodeVal("road"), NoneVal, ListVal}

AttrItems ==
    {<< [k |-> k, v |-> v] >> : k \in AttrKeys, v \in AttrValues}
    \cup UNION {{<< [k |-> k1, v |-> v1], [k |-> k2, v |-> v2] >> :
                    k2 \in AttrKeys \ {k1},
                    v1 \in {StrVal("road"), NoneVal},
                    v2 \in {StrVal("road"), NoneVal}} : k1 \in AttrKeys}

\* the state after lines 91-97 of addFeatures
InitAttr ==
    /\ status = "attr"
    /\ layers = << NewLayer("") >>
    /\ keys = <<>>
    /\ values = <<>>
    /\ feature_count = 0
    /\ fed = << <<>> >>
    /\ IdleGeo
    /\ IdleZig

\* f = self.layer.features.add() and self._handle_attr(self.layer, f, props)
HandleAttr ==
    /\ status = "attr"
    /\ Len(layers[1].features) < MaxCalls
    /\ \E items \in AttrItems :
        LET l == layers[1]
            a == handle_attr([lkeys |-> l.keys, lvalues |-> l.values,
                              keys |-> keys, values |-> values,
                              tags |-> <<>>, err |-> ""], items)
            f == [NewFeature(feature_count + 1) EXCEPT !.tags = a.tags]
        IN /\ layers' = << [l EXCEPT !.keys = a.lkeys, !.values = a.lvalues,
                                     !.features = Append(l.features, f)] >>
           /\ keys' = a.keys
           /\ values' = a.values
           /\ feature_count' = feature_count + 1
           /\ status' = IF a.err = "" THEN status ELSE a.err
           /\ fed' = << Append(fed[1],
                        [geom |-> "", len |-> 0, id |-> NoneVal, items |-> items]) >>
    /\ UNCHANGED <<geoVars, zz>>

NextAttr == HandleAttr

SpecAttr == InitAttr /\ [][NextAttr]_vars

-----------------------------------------------------------------------------
(* SpecZig: the zigzag encoding of one delta and its decoding.             *)

\* deltas range over -MaxDelta..MaxDelta and the largest magnitudes whose
\* doubling a 32-bit TLC integer holds: -2^30, -2^30 + 1, 2^30 - 2, 2^30 - 1
MaxDelta == 60

ZigInputs ==
    (-MaxDelta..MaxDelta)
    \cup {-1073741824, -1073741823, 1073741822, 1073741823}

InitZig ==
    /\ zz \in {[n |-> n, e |-> 0, d |-> 0, pc |-> "start"] : n \in ZigInputs}
    /\ IdleGeo
    /\ IdleTile

ZigEncode ==
    /\ zz.pc = "start"
    /\ zz' = [zz EXCEPT !.e = ZigZag(zz.n), !.pc = "encoded"]
    /\ UNCHANGED <<geoVars, tileVars>>

ZigDecode ==
    /\ zz.pc = "encoded"
    /\ zz' = [zz EXCEPT !.d = UnZigZag(zz.e), !.pc = "decoded"]
    /\ UNCHANGED <<geoVars, tileVars>>

NextZig == ZigEncode \/ ZigDecode

SpecZig == InitZig /\ [][NextZig]_vars

-----------------------------------------------------------------------------
(* Reading an encoded geometry back, as a decoder of the wire format does. *)

\* the runs of a word stream: a command word (length << 3) | opcode, then
\* `length` coordinate pairs after MoveTo or LineTo and none after ClosePath;
\* a stream that ends inside a run gives a run of opcode -1
RECURSIVE ParseRuns(_)
ParseRuns(w) ==
    IF w = <<>> THEN <<>>
    ELSE LET cmd    == Head(w) % 8
             length == Head(w) \div 8
             n      == IF cmd \in {1, 2} THEN 2 * length ELSE 0
         IN IF n < 0 \/ Len(w) < 1 + n
            THEN << [cmd |-> -1, length |-> length, coords |-> Tail(w)] >>
            ELSE << [cmd |-> cmd, length |-> length, coords |-> SubSeq(w, 2, 1 + n)] >>
                 \o ParseRuns(SubSeq(w, 2 + n, Len(w)))

\* the absolute positions of a sequence of zigzag delta words from (x, y)
RECURSIVE Accumulate(_, _, _)
Accumulate(ws, x, y) ==
    IF Len(ws) < 2 THEN <<>>
    ELSE LET nx == x + Xor(ShiftRight(ws[1], 1), -(ws[1] % 2))
             ny == y + Xor(ShiftRight(ws[2], 1), -(ws[2] % 2))
         IN << [x |-> nx, y |-> ny] >> \o Accumulate(SubSeq(ws, 3, Len(ws)), nx, ny)

DecodedPositions(w) ==
    LET runs == ParseRuns(w)
    IN Accumulate(Flatten([i \in 1..Len(runs) |-> runs[i].coords]), 0, 0)

\* the arcs of a shape, in order
ArcsOf(s) == Flatten(s.polys)

IsPolygonal(s) == s.type \in {"Polygon", "MultiPolygon"}

\* the tile-local vertices (int(x), int(extent - y)) of the MoveTo and LineTo
\* entries of a shape: every vertex, but for the closing one of a ring
TileLocalVertices(s) ==
    LET arcs == ArcsOf(s)
        kept(a) == IF IsPolygonal(s) THEN SubSeq(a, 1, Len(a) - 1) ELSE a
        local(p) == [x |-> IF p.x >= 0 THEN p.x \div 2 ELSE -((-p.x) \div 2),
                     y |-> IF 8192 - p.y >= 0 THEN (8192 - p.y) \div 2
                           ELSE -((p.y - 8192) \div 2)]
    IN Flatten([i \in 1..Len(arcs) |->
                   [j \in 1..Len(kept(arcs[i])) |-> local(kept(arcs[i])[j])]])

-----------------------------------------------------------------------------
(* Claims about the encoder with tolerance 0.                              *)

\* C1: with tolerance 0 every MoveTo / LineTo vertex is emitted, and
\* accumulating the un-zigzagged deltas of the output from (0,0) gives, in
\* order, exactly the tile-local input vertices (int(x), int(extent - y));
\* the Point (10, 20) gives the words [9, 20, 8152].
C1_Tolerance0Fidelity ==
    (g.pc = "done" /\ tolerance = 0) =>
        /\ DecodedPositions(g.geometry) = TileLocalVertices(shape)
        /\ shape = PointShape([x |-> 20, y |-> 40]) => g.geometry = <<9, 20, 8152>>

\* a finished polygon with an interior ring and a vertex at (1, 0.5)
C1_Witness ==
    /\ g.pc = "done" /\ tolerance = 0
    /\ shape.type = "Polygon" /\ Len(shape.polys[1]) = 2
    /\ shape.polys[1][1][2] = [x |-> 2, y |-> 1]
    /\ Len(DecodedPositions(g.geometry)) = 6

\* C2 as stated: the LineString (0,0) -> (5,0) with tolerance 0 gives the
\* words [9, 0, 0, 18, 10, 0].
C2_Original ==
    (g.pc = "done" /\ tolerance = 0 /\ shape = LineFrom00To50) =>
        g.geometry = <<9, 0, 0, 18, 10, 0>>

\* C2 amended: the LineString (0,0) -> (5,0) gives [9, 0, 8192, 10, 10, 0]:
\* the y of each vertex is flipped against the extent (dy = 4096 for the
\* MoveTo, zigzag 8192) and the command word of a LineTo run of length 1 is
\* (1 << 3) | 2 = 10.  The LineString (0,4096) -> (5,4096), whose tile-local
\* vertices are (0,0) and (5,0), gives [9, 0, 0, 10, 10, 0].
C2_Amended ==
    /\ (g.pc = "done" /\ tolerance = 0 /\ shape = LineFrom00To50) =>
            g.geometry = <<9, 0, 8192, 10, 10, 0>>
    /\ (g.pc = "done" /\ tolerance = 0
            /\ shape = LineShape(<< [x |-> 0, y |-> 8192], [x |-> 10, y |-> 8192] >>)) =>
            g.geometry = <<9, 0, 0, 10, 10, 0>>

C2_Witness ==
    /\ g.pc = "done" /\ tolerance = 0 /\ shape = LineFrom00To50
    /\ Len(g.geometry) = 6

\* the runs a closed ring of K vertices is to give
RingRuns(K) ==
    << [cmd |-> 1, length |-> 1, pairs |-> 1],
       [cmd |-> 2, length |-> K - 2, pairs |-> K - 2],
       [cmd |-> 7, length |-> 1, pairs |-> 0] >>

RunShapes(w) ==
    LET runs == ParseRuns(w)
    IN [i \in 1..Len(runs) |->
            [cmd |-> runs[i].cmd, length |-> runs[i].length,
             pairs |-> Len(runs[i].coords) \div 2]]

\* C3: with tolerance 0 every closed ring of K >= 4 vertices of a Polygon or
\* MultiPolygon gives a MoveTo run and a LineTo run of K-1 coordinate pairs
\* in total, then one ClosePath command word of length 1 (15) with no
\* coordinate pair, also when several rings follow one another.
C3_PolygonClosure ==
    (g.pc = "done" /\ tolerance = 0 /\ IsPolygonal(shape)) =>
        LET rings == ArcsOf(shape)
        IN /\ \A i \in 1..Len(rings) : Len(rings[i]) >= 4
           /\ RunShapes(g.geometry) =
                Flatten([i \in 1..Len(rings) |-> RingRuns(Len(rings[i]))])

\* a finished MultiPolygon: two rings, two ClosePath words
C3_Witness ==
    /\ g.pc = "done" /\ tolerance = 0 /\ shape.type = "MultiPolygon"
    /\ Len(RunShapes(g.geometry)) = 6
    /\ g.geometry[Len(g.geometry)] = 15

-----------------------------------------------------------------------------
(* The properties a layer was fed, against its tables and tags.            *)

IsNotNone(item) == item.v # NoneVal

\* the items _handle_attr does not skip
NonNull(items) == SelectSeq(items, IsNotNone)

\* the occurrences <<i, p>> of layer l: the p-th non-null property of its
\* i-th feature, when its pair of tags was written
Occ(l) ==
    {o \in (1..Len(fed[l])) \X (1..3) :
        /\ o[2] <= Len(NonNull(fed[l][o[1]].items))
        /\ 2 * o[2] <= Len(layers[l].features[o[1]].tags)}

OccKey(l, o) == NonNull(fed[l][o[1]].items)[o[2]].k
OccVal(l, o) == NonNull(fed[l][o[1]].items)[o[2]].v
KeyIdx(l, o) == layers[l].features[o[1]].tags[2 * o[2] - 1]
ValIdx(l, o) == layers[l].features[o[1]].tags[2 * o[2]]

NoDup(q) == \A i \in 1..Len(q) : \A j \in 1..Len(q) : q[i] = q[j] => i = j

\* the wire value the format has for a value of the closed set of types
WireOf(v) ==
    CASE v.t = "bool"  -> WireValue("bool_value", v, FALSE)
      [] v.t = "int"   -> WireValue("int_value", v, FALSE)
      [] v.t = "float" -> WireValue("double_value", v, TRUE)
      [] IsText(v)     -> WireValue("string_value", v, FALSE)
      [] OTHER         -> EmptyWireValue

SupportedTypes == {"bool", "int", "float", "str", "unicode"}

\* every value layer l was fed is a bool, an int, a float, a str or None
PlainValues(l) ==
    \A i \in 1..Len(fed[l]) : \A p \in 1..Len(fed[l][i].items) :
        fed[l][i].items[p].v.t \in {"bool", "int", "float", "str", "NoneType"}

\* all the non-null items layer l was fed, in order
RECURSIVE AllItems(_)
AllItems(entries) ==
    IF entries = <<>> THEN <<>>
    ELSE NonNull(Head(entries).items) \o AllItems(Tail(entries))

\* a sequence without the repeats of its elements, in first-seen order
RECURSIVE FirstSeen(_)
FirstSeen(q) ==
    IF q = <<>> THEN <<>>
    ELSE LET r == FirstSeen(SubSeq(q, 1, Len(q) - 1))
             x == q[Len(q)]
         IN IF \E i \in 1..Len(r) : r[i] = x THEN r ELSE Append(r, x)

KeysFed(l) == LET its == AllItems(fed[l]) IN [i \in 1..Len(its) |-> its[i].k]
ValuesFed(l) == LET its == AllItems(fed[l]) IN [i \in 1..Len(its) |-> its[i].v]

-----------------------------------------------------------------------------
(* Claims about the property table.                                        *)

\* what one call of _handle_attr leaves alone: when every key (every value)
\* of the call was interned before, the key table (the value table) is as
\* it was
C4_Step ==
    (status = "attr" /\ Len(fed'[1]) = Len(fed[1]) + 1) =>
        LET items == NonNull(fed'[1][Len(fed'[1])].items)
            seenKeys == {OccKey(1, o) : o \in Occ(1)}
            seenVals == {OccVal(1, o) : o \in Occ(1)}
        IN /\ (\A p \in 1..Len(items) : items[p].k \in seenKeys) =>
                layers'[1].keys = layers[1].keys /\ keys' = keys
           /\ (\A p \in 1..Len(items) : items[p].v \in seenVals) =>
                layers'[1].values = layers[1].values /\ values' = values

C4_State ==
    \A l \in 1..Len(layers) :
        /\ \A o1 \in Occ(l) : \A o2 \in Occ(l) :
            /\ OccKey(l, o1) = OccKey(l, o2) => KeyIdx(l, o1) = KeyIdx(l, o2)
            /\ OccVal(l, o1) = OccVal(l, o2) => ValIdx(l, o1) = ValIdx(l, o2)
        /\ NoDup(layers[l].keys)
        /\ NoDup(layers[l].values)
        /\ (Len(fed[l]) = 2 /\ \A i \in 1..2 : fed[l][i].items = Kind(StrVal("road")))
            => /\ layers[l].keys = <<"kind">>
               /\ layers[l].values = << WireOf(StrVal("road")) >>
               /\ \A i \in 1..2 : layers[l].features[i].tags = <<0, 0>>

\* C4: within one layer build a key (a value) interned before gets the index
\* of its first occurrence and leaves the key table (the value table) as it
\* was; two features with {"kind": "road"} give the key table ["kind"], the
\* value table ["road"] and the same pair of tags.
C4_InterningIdempotent == []C4_State /\ [][C4_Step]_vars

\* two features with the property {"kind": "road"}
C4_Witness ==
    /\ status = "attr" /\ Len(fed[1]) = 2
    /\ \A i \in 1..2 : fed[1][i].items = Kind(StrVal("road"))
    /\ layers[1].features[2].tags = <<0, 0>>

\* C5: each distinct (type, value) pair has its own entry of the value table
\* and a bool is never taken for an int: in a layer fed only bools, ints,
\* floats and strs, properties of different (type, value) have different
\* value indices and each index points at a wire value of the property's
\* own type.
C5_TypedInterning ==
    \A l \in 1..Len(layers) : PlainValues(l) =>
        \A o1 \in Occ(l) : \A o2 \in Occ(l) :
            /\ OccVal(l, o1) # OccVal(l, o2) => ValIdx(l, o1) # ValIdx(l, o2)
            /\ ValIdx(l, o1) < Len(layers[l].values)
            /\ layers[l].values[ValIdx(l, o1) + 1].field = WireOf(OccVal(l, o1)).field

\* C9: a property whose value is of a type outside {bool, int, float, str}
\* and is not None makes the call fail with UnsupportedValueType.
C9_UnsupportedValueRejected ==
    \A l \in 1..Len(layers) : \A i \in 1..Len(fed[l]) :
        (\E p \in 1..Len(fed[l][i].items) :
            fed[l][i].items[p].v.t \notin SupportedTypes \cup {"NoneType"})
        => status = "UnsupportedValueType"

-----------------------------------------------------------------------------
(* Claims about layers and tiles.                                          *)

\* C6: a layer of N features that are 2-tuples (geometry, properties) is
\* encoded without error and its features get the ids 1..N in input order.
C6_SequentialIds ==
    \A l \in 1..Len(layers) :
        (/\ Len(fed[l]) > 0
         /\ \A i \in 1..Len(fed[l]) :
                fed[l][i].len = 2 /\ fed[l][i].geom # "GeometryCollection")
        => /\ ~Raised
           /\ \A i \in 1..Len(fed[l]) : layers[l].features[i].id = i

\* a step that feeds addFeature a 3-tuple whose geometry is a
\* GeometryCollection raises UnsupportedGeometry and changes nothing
C7_Step ==
    (/\ Len(fed') = Len(fed) /\ Len(fed) > 0
     /\ Len(fed'[Len(fed)]) = Len(fed[Len(fed)]) + 1
     /\ fed'[Len(fed)][Len(fed'[Len(fed)])].geom = "GeometryCollection"
     /\ fed'[Len(fed)][Len(fed'[Len(fed)])].len = 3)
    => /\ status' = "UnsupportedGeometry"
       /\ layers' = layers
       /\ feature_count' = feature_count
       /\ keys' = keys /\ values' = values

\* C7: addFeature on a GeometryCollection fails with UnsupportedGeometry and
\* leaves the layer as it was: no feature appended, feature_count not
\* advanced, the key and value tables not grown.
C7_GeometryCollectionRejected == [][C7_Step]_vars

\* C8: after the tile is written each layer's key table and value table
\* hold exactly the keys and the values of the non-null properties of that
\* layer's own features, in first-seen order, and every pair of tags of a
\* feature points, in the tables of its own layer, at the key and the value
\* of the property it was written for.
C8_TablesPerLayer ==
    status = "written" =>
        \A l \in 1..Len(layers) :
            /\ layers[l].keys = FirstSeen(KeysFed(l))
            /\ layers[l].values =
                    LET vs == FirstSeen(ValuesFed(l))
                    IN [i \in 1..Len(vs) |-> WireOf(vs[i])]
            /\ \A o \in Occ(l) :
                /\ KeyIdx(l, o) < Len(layers[l].keys)
                /\ layers[l].keys[KeyIdx(l, o) + 1] = OccKey(l, o)
                /\ ValIdx(l, o) < Len(layers[l].values)
                /\ layers[l].values[ValIdx(l, o) + 1] = WireOf(OccVal(l, o))

\* what is left of C8 in a layer fed only bools, ints, floats and strs of
\* which no two of different types are equal as Python compares them: the
\* tables are those of the layer's own features
C8_TablesPerLayerOfDistinctPlainValues ==
    status = "written" =>
        \A l \in 1..Len(layers) :
            (/\ PlainValues(l)
             /\ \A i \in 1..Len(ValuesFed(l)) : \A j \in 1..Len(ValuesFed(l)) :
                    PyEq(ValuesFed(l)[i], ValuesFed(l)[j])
                        => ValuesFed(l)[i] = ValuesFed(l)[j])
            => /\ layers[l].keys = FirstSeen(KeysFed(l))
               /\ layers[l].values =
                        LET vs == FirstSeen(ValuesFed(l))
                        IN [i \in 1..Len(vs) |-> WireOf(vs[i])]
               /\ \A o \in Occ(l) :
                    /\ layers[l].keys[KeyIdx(l, o) + 1] = OccKey(l, o)
                    /\ layers[l].values[ValIdx(l, o) + 1] = WireOf(OccVal(l, o))

-----------------------------------------------------------------------------
(* Claims about the zigzag encoding.                                       *)

\* C10: for a signed delta n the encoder's e = (n << 1) ^ (n >> 31) is
\* non-negative and fits an unsigned 32-bit word, and (e >> 1) ^ -(e & 1)
\* gives n back.
C10_ZigZagRoundTrip ==
    /\ zz.pc \in {"encoded", "decoded"} => (zz.e >= 0 /\ ShiftRight(zz.e, 32) = 0)
    /\ zz.pc = "decoded" => zz.d = zz.n

\* a negative delta, encoded and decoded
C10_Witness == zz.pc = "decoded" /\ zz.n = -1073741824 /\ zz.e = 2147483647

-----------------------------------------------------------------------------
(* Claims about the encoder with a tolerance: skips and in-place patches.  *)

\* the buffer of a state of the loop with the command word of the run in
\* progress filled in, as lines 263-264 and 323-324 do
FlushedGeometry(st) ==
    IF st.cmd_idx >= 0 /\ st.cmd_idx < Len(st.geometry)
    THEN [st.geometry EXCEPT ![st.cmd_idx + 1] = encode_cmd_length(st.cmd, st.length)]
    ELSE st.geometry

\* where a decoder stands after all the deltas currently in the buffer
BufferPosition(st) ==
    LET ps == DecodedPositions(FlushedGeometry(st))
    IN IF ps = <<>> THEN [x |-> 0, y |-> 0] ELSE ps[Len(ps)]

\* C11: at every step of _geo_encode the position obtained by accumulating
\* all the un-zigzagged deltas currently in the buffer is the encoder's
\* cursor (x_, y_), so that a vertex emitted after a patch decodes to its
\* own truncated input position.
C11_NoDriftAfterPatch ==
    g.pc = "loop" => BufferPosition(g) = [x |-> g.x_, y |-> g.y_]

\* one pass of the loop on a MoveTo or LineTo entry: the entry is emitted
\* exactly when it opens a run, or the entry after it is a LineTo at an
\* axis-aligned step of at least the tolerance, or |dx| or |dy| is at least
\* the tolerance
C12_Step ==
    (/\ g.pc = "loop" /\ g.it < Len(g.coordinates) /\ g'.it = g.it + 1
     /\ g.coordinates[g.it + 1].cmd \in {CMD_MOVE_TO, CMD_LINE_TO})
    => LET c     == g.coordinates[g.it + 1]
           n     == Len(g.coordinates)
           first == c.cmd # g.cmd
           vx    == PyInt(c.x)
           vy    == PyInt(c.y)
           dx    == vx - g.x_
           dy    == vy - g.y_
           turn  == /\ g.it + 2 <= n
                    /\ g.coordinates[g.it + 2].cmd = CMD_LINE_TO
                    /\ LET sx == Abs(vx - PyInt(g.coordinates[g.it + 2].x))
                           sy == Abs(vy - PyInt(g.coordinates[g.it + 2].y))
                       IN (sx = 0 /\ sy >= tolerance) \/ (sy = 0 /\ sx >= tolerance)
           emit  == first \/ turn \/ Abs(dx) >= tolerance \/ Abs(dy) >= tolerance
           opened == IF first THEN 1 ELSE 0
           m     == Len(g'.geometry)
       IN IF emit
          THEN /\ m = Len(g.geometry) + opened + 2
               /\ g'.geometry[m - 1] = ZigZag(dx)
               /\ g'.geometry[m] = ZigZag(dy)
               /\ g'.x_ = vx /\ g'.y_ = vy
               /\ g'.length = (IF first THEN 0 ELSE g.length) + 1
               /\ ~g'.skipped_last
          ELSE /\ m = Len(g.geometry)
               /\ g'.x_ = g.x_ /\ g'.y_ = g.y_
               /\ g'.length = g.length
               /\ g'.skipped_last
               /\ g'.skipped_index = Len(g.geometry)

RECURSIVE LastVertex(_)
LastVertex(cs) ==
    IF cs[Len(cs)].cmd \in {CMD_MOVE_TO, CMD_LINE_TO} THEN cs[Len(cs)]
    ELSE LastVertex(SubSeq(cs, 1, Len(cs) - 1))

\* the output ends where the last MoveTo or LineTo entry of the input is
EndsAtLastVertex(st) ==
    LET ps == DecodedPositions(st.geometry)
        v  == LastVertex(st.coordinates)
    IN /\ ps # <<>>
       /\ ps[Len(ps)] = [x |-> PyInt(v.x), y |-> PyInt(v.y)]

\* C13: when the last MoveTo / LineTo vertex of the stream was skipped and
\* the skip is still pending at the end, the final patch is applied once,
\* with that vertex, and for every geometry kind the last coordinate pair of
\* the output decodes to the position of that vertex.
C13_FinalPatch ==
    (g.pc = "done" /\ g.skipped_last /\ g.skipped_index > 1) => EndsAtLastVertex(g)

\* what is left of C13 when no patch ran inside the loop: a geometry of one
\* line or one ring
C13_FinalPatchOfOneArc ==
    (/\ g.pc = "done" /\ g.skipped_last /\ g.skipped_index > 1
     /\ shape.type \in {"LineString", "Polygon"} /\ Len(ArcsOf(shape)) = 1)
    => EndsAtLastVertex(g)

-----------------------------------------------------------------------------
(* Claims about the identifier of a feature.                               *)

\* the tags of a feature hold, as one pair, the key index ki and the value
\* index vi
HasTagPair(tags, ki, vi) ==
    \E p \in 1..(Len(tags) \div 2) : tags[2 * p - 1] = ki /\ tags[2 * p] = vi

\* C14: a feature given as a 3-tuple with the identifier i has i in the
\* properties _handle_attr goes through, under the key 'uid'; when i is not
\* null its tags hold the pair (index of 'uid', index of i), and its wire id
\* is its 1-based position in the layer whatever i is.
C14_UidInjected ==
    \A l \in 1..Len(layers) : \A i \in 1..Len(fed[l]) :
        fed[l][i].len = 3 =>
            LET f  == layers[l].features[i]
                id == fed[l][i].id
            IN /\ f.id = i
               /\ \E p \in 1..Len(fed[l][i].items) :
                        fed[l][i].items[p] = [k |-> "uid", v |-> id]
               /\ id # NoneVal =>
                    \E ki \in 0..(Len(layers[l].keys) - 1) : \E vi \in 0..Len(f.tags) :
                        /\ layers[l].keys[ki + 1] = "uid"
                        /\ HasTagPair(f.tags, ki, vi)
                        \* in the layer under construction, whose interned
                        \* values are self.values
                        /\ l = Len(layers) =>
                                /\ vi < Len(values)
                                /\ vi = ListIndex(values, id)
                        /\ PlainValues(l) =>
                                /\ vi < Len(layers[l].values)
                                /\ layers[l].values[vi + 1] = WireOf(id)

\* the second feature of a layer, given with the identifier 7 and one
\* property
C14_Witness ==
    /\ Building /\ Len(layers) = 1 /\ Len(fed[1]) = 2
    /\ fed[1][2].len = 3 /\ fed[1][2].id = IntVal(7)
    /\ layers[1].features[2].id = 2
    /\ Len(layers[1].features[2].tags) = 4

-----------------------------------------------------------------------------
(* Claims about the ring stream.                                           *)

\* the entries the vertices of one ring (closed) or one line are to give
TaggedArc(arc, closed) ==
    [j \in 1..Len(arc) |->
        [x |-> arc[j].x, y |-> 2 * 4096 - arc[j].y,
         cmd |-> IF j = 1 THEN 1
                 ELSE IF j = Len(arc) THEN (IF closed THEN 7 ELSE 2)
                 ELSE 2]]

\* C15: the ring stream of a Polygon lists the exterior ring and then each
\* interior ring, that of a MultiPolygon does so for each member polygon in
\* order; in every ring the first vertex is tagged MoveTo, the vertices in
\* between LineTo and the last vertex ClosePath; in a LineString or
\* MultiLineString the last vertex of each line is tagged LineTo and each
\* line restarts with MoveTo.
C15_RingStream ==
    shape.type \in {"LineString", "MultiLineString", "Polygon", "MultiPolygon"} =>
        LET arcs == ArcsOf(shape)
        IN g.coordinates =
                Flatten([i \in 1..Len(arcs) |-> TaggedArc(arcs[i], IsPolygonal(shape))])

\* the stream of a MultiPolygon whose first member has an interior ring,
\* read by the encoder to its end
C15_Witness ==
    /\ g.pc = "done" /\ shape.type = "MultiPolygon" /\ Len(shape.polys[1]) = 2
    /\ [i \in 1..Len(g.coordinates) |-> g.coordinates[i].cmd]
            = <<1, 2, 2, 7, 1, 2, 2, 7, 1, 2, 2, 7>>
    /\ shape.polys[1][1] # shape.polys[1][2]

-----------------------------------------------------------------------------
(* Claims about the form of the word stream.                               *)

\* a word stream parses as runs: each a command word (length << 3) | opcode
\* of a MoveTo or LineTo with length >= 1 and exactly that many coordinate
\* pairs, or of a ClosePath with length 1 and no pair; nothing is left over
\* and no command word is 0
WellFormed(w) ==
    LET runs == ParseRuns(w)
        words(r) == 1 + Len(r.coords)
        RECURSIVE total(_)
        total(rs) == IF rs = <<>> THEN 0 ELSE words(Head(rs)) + total(Tail(rs))
    IN /\ total(runs) = Len(w)
       /\ \A i \in 1..Len(runs) :
            /\ runs[i].cmd \in {1, 2, 7}
            /\ runs[i].length >= 1
            /\ runs[i].cmd \in {1, 2} => Len(runs[i].coords) = 2 * runs[i].length
            /\ runs[i].cmd = 7 => runs[i].length = 1 /\ runs[i].coords = <<>>

C16_State == g.pc = "done" => WellFormed(g.geometry)

\* a step never takes words away, and the patches add none: the end of the
\* stream leaves the number of words as it is, and so does a pass of the
\* loop on a vertex it skips
C16_Step ==
    /\ Len(g'.geometry) >= Len(g.geometry)
    /\ g'.pc = "done" => Len(g'.geometry) = Len(g.geometry)
    /\ (g'.pc = "loop" /\ g'.skipped_last /\ g'.it = g.it + 1
            /\ g.coordinates[g.it + 1].cmd \in {1, 2})
        => Len(g'.geometry) = Len(g.geometry)

\* C16: for every ring stream the builder produces and every tolerance, the
\* output of _geo_encode parses as a sequence of runs, each a command word
\* (length << 3) | opcode with no placeholder 0 left behind, a MoveTo or
\* LineTo of length L >= 1 followed by exactly L coordinate pairs, a
\* ClosePath of length 1 followed by none; patching never changes the
\* number of words.
C16_WellFormedStream == []C16_State /\ [][C16_Step]_vars

\* a finished polygon of two rings, the last vertex of each skipped: a patch
\* inside the loop and one at the end
C16_Witness ==
    /\ g.pc = "done" /\ tolerance = 2 /\ g.skipped_last
    /\ shape.type = "Polygon" /\ Len(ArcsOf(shape)) = 2
    /\ Len(ParseRuns(g.geometry)) = 6
    /\ Len(g.geometry) = 14

-----------------------------------------------------------------------------
(* Claims about the shadow lists of the property table.                    *)

\* self.keys and self.values against the wire tables of the layer under
\* construction: same length, entry by entry the same key and the wire value
\* of the same value
ShadowAligned ==
    LET l == layers[Len(layers)]
    IN /\ Len(keys) = Len(l.keys)
       /\ \A i \in 1..Len(keys) : l.keys[i] = keys[i]
       /\ Len(values) = Len(l.values)
       /\ \A i \in 1..Len(values) : l.values[i] = WireOf(values[i])

\* the tags of the features of layer l: pairs, each within the wire tables
\* and at the wire key and the wire value of the property it was written for
TagsInTables(l) ==
    /\ \A i \in 1..Len(layers[l].features) :
            Len(layers[l].features[i].tags) % 2 = 0
    /\ \A o \in Occ(l) :
            /\ KeyIdx(l, o) >= 0 /\ KeyIdx(l, o) < Len(layers[l].keys)
            /\ layers[l].keys[KeyIdx(l, o) + 1] = OccKey(l, o)
            /\ ValIdx(l, o) >= 0 /\ ValIdx(l, o) < Len(layers[l].values)
            /\ layers[l].values[ValIdx(l, o) + 1] = WireOf(OccVal(l, o))

\* C17: after any sequence of _handle_attr calls in one layer build the
\* shadow lists self.keys / self.values are aligned with the wire tables
\* layer.keys / layer.values, so every feature's tag list has even length
\* and each (key_index, value_index) pair is within the wire tables and
\* references the wire key and the wire value of its property.
C17_ShadowListsAligned ==
    (status = "attr" /\ Len(layers) >= 1) =>
        /\ ShadowAligned
        /\ TagsInTables(Len(layers))

\* what is left of C17 in a layer fed only bools, ints, floats and strs: the
\* lists are aligned and the tags are pairs within the tables
C17_AlignedForSupportedValues ==
    (status = "attr" /\ Len(layers) >= 1 /\ PlainValues(Len(layers))) =>
        /\ ShadowAligned
        /\ \A i \in 1..Len(layers[1].features) :
                LET tags == layers[1].features[i].tags
                IN /\ Len(tags) % 2 = 0
                   /\ \A p \in 1..(Len(tags) \div 2) :
                        /\ tags[2 * p - 1] < Len(layers[1].keys)
                        /\ tags[2 * p] < Len(layers[1].values)

====
